---- MODULE Spec2Model ----
(***************************************************************************)
(* Model of quantecon/markov/approximation.py: the Rouwenhorst and Tauchen *)
(* AR(1) discretizations, the Cartesian product of grids, and the          *)
(* simulation-based VAR(1) discretization (discrete_var / _run_sim).       *)
(*                                                                         *)
(* Python lists and numpy arrays are sequences: the code's index i is      *)
(* position i + 1, and index variables (ind_i, t, ...) keep the code's     *)
(* 0-based values.  A 2-d array is the sequence of its rows.  A float that *)
(* results from a division is carried as the pair <<num, den>>; 0/0 is the *)
(* pair <<0, 0>>, the NaN numpy produces (with a warning, not an error).   *)
(***************************************************************************)
EXTENDS Integers, Sequences, FiniteSets, TLC

VARIABLES
    \* ---- discrete_var / _run_sim
    vpc,          \* position in discrete_var: "start", "sim", "normalize", "done"
    grid_sizes,   \* argument grid_sizes (m = 1: one grid)
    sim_length,   \* argument sim_length
    burn_in,      \* argument burn_in
    return_sim,   \* argument return_sim
    S,            \* discrete state space, S[r] is the row of state r
    Pi,           \* count matrix, then pruned, then normalized
    Xvec,         \* simulated trace, one entry per column
    x0,           \* _run_sim: previous continuous state
    ind_i,        \* _run_sim: index of the previous quantized state
    t,            \* _run_sim: loop counter
    sum_row,      \* discrete_var: row sums of the pruned counts
    ret,          \* the tuple discrete_var returns
    draws,        \* history: the continuous state x of every loop step so far
    writes,       \* history: number of assignments to each column of Xvec
    \* ---- cartesian_product
    cpc,          \* "start", "done"
    arrays,       \* argument arrays
    row_major,    \* argument row_major
    CS,           \* the returned array S
    \* ---- rouwenhorst / tauchen
    apc,          \* "start", "grid", "rbm_enter", "rbm_return", "fill", "done", "raised"
    fn,           \* "rouwenhorst" or "tauchen"
    n,            \* argument n
    rho,          \* argument rho, the rational <<num, den>>
    m,            \* tauchen: argument m
    stack,        \* rouwenhorst: the n of every pending row_build_mat frame
    arg,          \* rouwenhorst: the n of the running row_build_mat frame
    theta,        \* rouwenhorst: matrix returned by the last finished frame
    std_y,        \* the stationary standard deviation (y_sd in rouwenhorst)
    x,            \* tauchen: the grid
    P,            \* tauchen: the transition matrix being filled
    half_step,    \* tauchen: half the grid step
    fi,           \* tauchen: _fill_tauchen's row counter i
    raised        \* <<exception, line>> that ended the call, or <<"none", 0>>

simVars == <<vpc, grid_sizes, sim_length, burn_in, return_sim, S, Pi, Xvec, x0,
             ind_i, t, sum_row, ret, draws, writes>>
cartVars == <<cpc, arrays, row_major, CS>>
arVars == <<apc, fn, n, rho, m, stack, arg, theta, std_y, x, P, half_step, fi, raised>>
vars == <<simVars, cartVars, arVars>>

(***************************************************************************)
(* Bounds of the model.                                                    *)
(***************************************************************************)
MaxGrid == 3      \* largest grid size of discrete_var's single dimension
MaxSim == 3       \* largest sim_length
MaxBurn == 1      \* largest burn_in
MaxDims == 3      \* cartesian_product: largest number of grids
MaxVal == 3       \* cartesian_product: grid values are drawn from 1..MaxVal
MaxRows == 12     \* cartesian_product: largest number of rows of the product
MaxN == 4         \* rouwenhorst, tauchen: largest n
MaxM == 2         \* tauchen: largest m
MaxRhoNum == 6    \* rho = num/den with |num| <= MaxRhoNum ...
MaxRhoDen == 5    \* ... and 1 <= den <= MaxRhoDen

(***************************************************************************)
(* numpy helpers.                                                          *)
(***************************************************************************)
\* a[i] for the code's 0-based index i
At(a, i) == a[i + 1]

\* np.sum of a 1-d array
RECURSIVE Sum(_)
Sum(s) == IF s = <<>> THEN 0 ELSE Head(s) + Sum(Tail(s))

\* np.prod of a list of sizes (1 for the empty list)
RECURSIVE prod(_)
prod(s) == IF s = <<>> THEN 1 ELSE Head(s) * prod(Tail(s))

\* np.argmin: the 0-based index of the least entry, the lowest one on ties
argmin(d) ==
    (CHOOSE i \in DOMAIN d : \A j \in DOMAIN d : d[i] < d[j] \/ (d[i] = d[j] /\ i <= j)) - 1

\* np.linspace(start, stop, num): num evenly spaced points, both ends included
\* (the model's lengths are multiples of the step, so the division is exact)
linspace(start, stop, num) ==
    [k \in 1..num |-> IF num = 1 THEN start
                      ELSE start + ((k - 1) * (stop - start)) \div (num - 1)]

\* np.zeros((k, k))
zeros2(k) == [i \in 1..k |-> [j \in 1..k |-> 0]]

\* np.sum(M, axis=0)[j]
ColSum(M, j) == Sum([i \in 1..Len(M) |-> M[i][j + 1]])

\* np.sum(M, axis=1)[i]
RowSum(M, i) == Sum(At(M, i))

\* np.ravel of a 2-d array: its rows one after the other
RECURSIVE ravel(_)
ravel(M) == IF M = <<>> THEN <<>> ELSE Head(M) \o ravel(Tail(M))

\* np.tile(a, [reps, 1]) of a 1-d array: reps rows, each a copy of a
tile(a, reps) == [k \in 1..reps |-> a]

\* np.sort of a 1-d array (ascending), by insertion
RECURSIVE Insert(_, _)
Insert(v, s) ==
    IF s = <<>> THEN <<v>>
    ELSE IF v <= Head(s) THEN <<v>> \o s
    ELSE <<Head(s)>> \o Insert(v, Tail(s))

RECURSIVE sort(_)
sort(s) == IF s = <<>> THEN <<>> ELSE Insert(Head(s), sort(Tail(s)))

(***************************************************************************)
(* cartesian_product (lines 219-249).                                      *)
(***************************************************************************)
\* The multi-indices of an array of shape gs in C order (the order in which
\* np.reshape reads it): nested loops, dimension 0 outermost.
RECURSIVE COrder(_)
COrder(gs) ==
    IF gs = <<>> THEN << <<>> >>
    ELSE LET rest == COrder(Tail(gs))
         IN  ravel([i \in 1..Head(gs) |-> [r \in 1..Len(rest) |-> <<i>> \o rest[r]]])

\* np.meshgrid(*arrays, indexing='ij'): one array per dimension k, whose
\* entry at multi-index idx is arrays[k][idx[k]]
meshgrid(arrs, idx) == [k \in 1..Len(arrs) |-> arrs[k][idx[k]]]

\* the multi-indices with the first index varying fastest (Fortran order)
RECURSIVE FOrder(_)
FOrder(gs) ==
    IF gs = <<>> THEN << <<>> >>
    ELSE LET rest == FOrder(SubSeq(gs, 1, Len(gs) - 1))
         IN  ravel([i \in 1..gs[Len(gs)] |-> [r \in 1..Len(rest) |-> rest[r] \o <<i>>]])

\* a row-major branch that reads the stacked mesh in Fortran order
RowMajorProductFOrder(arrs) ==
    LET gs == [k \in 1..Len(arrs) |-> Len(arrs[k])]
        order == FOrder(gs)
    IN  [r \in 1..Len(order) |-> meshgrid(arrs, order[r])]

\* row_major branch: np.reshape(np.stack(np.meshgrid(...), axis=-1), (-1, m))
RowMajorProduct(arrs) ==
    LET gs == [k \in 1..Len(arrs) |-> Len(arrs[k])]
        order == COrder(gs)
    IN  [r \in 1..Len(order) |-> meshgrid(arrs, order[r])]

\* a column built without the np.sort of line 247
ColMajorColumnNoSort(V, i) ==
    LET gs == [k \in 1..Len(V) |-> Len(V[k])]
        after == prod(SubSeq(gs, i + 2, Len(gs)))
        before == prod(SubSeq(gs, 1, i))
        S0 == IF i = 0 THEN At(V, i)
              ELSE ravel(tile(At(V, i), before))
    IN  ravel(tile(S0, after))

\* column i (0-based) of S in the column-major branch (lines 242-248)
ColMajorColumn(V, i) ==
    LET gs == [k \in 1..Len(V) |-> Len(V[k])]
        after == prod(SubSeq(gs, i + 2, Len(gs)))      \* np.prod(gs[i+1:])
        before == prod(SubSeq(gs, 1, i))               \* np.prod(gs[0:i])
        S0 == IF i = 0 THEN At(V, i)
              ELSE sort(ravel(tile(At(V, i), before)))
    IN  ravel(tile(S0, after))

\* column-major branch: S = zeros((n, m)), then S[:, i] = column i
ColMajorProduct(V) ==
    LET gs == [k \in 1..Len(V) |-> Len(V[k])]
        cols == [k \in 1..Len(V) |-> ColMajorColumn(V, k - 1)]
    IN  [r \in 1..prod(gs) |-> [k \in 1..Len(V) |-> cols[k][r]]]

cartesian_product(arrs, rm) ==
    IF rm THEN RowMajorProduct(arrs) ELSE ColMajorProduct(arrs)

(***************************************************************************)
(* discrete_var (lines 252-390) and _run_sim (lines 393-414), for a        *)
(* process of one dimension (m = 1).  Lengths are in units of half a grid  *)
(* step, so the grid of g points is -(g-1), -(g-3), ..., g-1.  The draw    *)
(* C @ randn is Gaussian, so x = A @ x0 + drw can be any real: the model   *)
(* draws x from the grid points (one value nearest to each state) and the  *)
(* midpoint of the first two (a distance tie).                             *)
(***************************************************************************)
XValues(g) == {-(g - 1) + 2 * k : k \in 0..(g - 1)} \cup {-(g - 2)}

\* squared distance of every state of S to xx (line 407)
Dist(SS, xx) == [r \in 1..Len(SS) |-> Sum([k \in 1..Len(xx) |-> (SS[r][k] - xx[k]) * (SS[r][k] - xx[k])])]

\* lines 346-372 and 395-399: set up S, Pi, Xvec and enter the loop
DiscreteVarCall ==
    /\ vpc = "start"
    /\ \E g \in 2..MaxGrid, sl \in 0..MaxSim, bi \in 0..MaxBurn, rs \in BOOLEAN, rm \in BOOLEAN :
        LET V == << linspace(-(g - 1), g - 1, g) >>
            SS == cartesian_product(V, rm)
        IN  /\ grid_sizes' = <<g>>
            /\ sim_length' = sl
            /\ burn_in' = bi
            /\ return_sim' = rs
            /\ S' = SS
            /\ Pi' = zeros2(prod(<<g>>))
            /\ Xvec' = [c \in 1..sl |-> <<0>>]
            /\ writes' = [c \in 1..sl |-> 0]
            /\ x0' = <<0>>
            /\ ind_i' = argmin([r \in 1..Len(SS) |-> Sum([k \in 1..1 |-> SS[r][k] * SS[r][k]])])
    /\ t' = 0
    /\ draws' = <<>>
    /\ vpc' = "sim"
    /\ UNCHANGED <<sum_row, ret, cartVars, arVars>>

\* a count window that opens one step early
CountedFromBurnIn(tt, bi) == tt >= bi

\* the count window of line 410
Counted(tt, bi) == tt > bi

\* an index that is never carried over to the next step
NextIndStale(ind_j) == ind_i

\* line 414: the index found at this step is the source of the next one
NextInd(ind_j) == ind_j

\* one iteration of the loop of lines 401-414
SimStep ==
    /\ vpc = "sim"
    /\ t < sim_length + burn_in
    /\ \E xv \in XValues(grid_sizes[1]) :
        LET xx == <<xv>>
            ind_j == argmin(Dist(S, xx))
        IN  /\ IF Counted(t, burn_in)
               THEN /\ Pi' = [Pi EXCEPT ![ind_i + 1][ind_j + 1] = @ + 1]
                    /\ Xvec' = [Xvec EXCEPT ![t - burn_in + 1] = xx]
                    /\ writes' = [writes EXCEPT ![t - burn_in + 1] = @ + 1]
               ELSE UNCHANGED <<Pi, Xvec, writes>>
            /\ x0' = xx
            /\ ind_i' = NextInd(ind_j)
            /\ draws' = Append(draws, xx)
    /\ t' = t + 1
    /\ UNCHANGED <<vpc, grid_sizes, sim_length, burn_in, return_sim, S, sum_row, ret,
                   cartVars, arVars>>

\* np.where(np.sum(Pi, axis=0) > 0): the 0-based indices, ascending
Where(M) ==
    LET F[k \in 0..Len(M)] ==
            IF k = 0 THEN <<>>
            ELSE IF ColSum(M, k - 1) > 0 THEN Append(F[k - 1], k - 1) ELSE F[k - 1]
    IN  F[Len(M)]

\* lines 376-381, once the loop has ended: cut the states never entered
Prune ==
    /\ vpc = "sim"
    /\ t = sim_length + burn_in
    /\ LET indx == Where(Pi)
       IN  /\ Pi' = [i \in 1..Len(indx) |-> [j \in 1..Len(indx) |-> Pi[indx[i] + 1][indx[j] + 1]]]
           /\ S' = [i \in 1..Len(indx) |-> S[indx[i] + 1]]
    /\ vpc' = "normalize"
    /\ UNCHANGED <<grid_sizes, sim_length, burn_in, return_sim, Xvec, x0, ind_i, t,
                   sum_row, ret, draws, writes, cartVars, arVars>>

\* a / b as numpy divides floats: no exception, 0/0 is NaN
Div(a, b) == <<a, b>>

\* lines 383-390: divide every row by its sum and return
Normalize ==
    /\ vpc = "normalize"
    /\ LET sr == [i \in 1..Len(Pi) |-> RowSum(Pi, i - 1)]
           Pn == [i \in 1..Len(Pi) |-> [j \in 1..Len(Pi) |-> Div(Pi[i][j], sr[i])]]
       IN  /\ sum_row' = sr
           /\ Pi' = Pn
           /\ ret' = IF return_sim THEN <<Pn, S, Xvec>> ELSE <<Pn, S>>
    /\ vpc' = "done"
    /\ UNCHANGED <<grid_sizes, sim_length, burn_in, return_sim, S, Xvec, x0, ind_i, t,
                   draws, writes, cartVars, arVars>>

CartIdle ==
    /\ cpc = "idle" /\ arrays = <<>> /\ row_major = TRUE /\ CS = <<>>

ARIdle ==
    /\ apc = "idle" /\ fn = "none" /\ n = 0 /\ rho = <<0, 1>> /\ m = 0
    /\ stack = <<>> /\ arg = 0 /\ theta = <<>> /\ std_y = 0
    /\ x = <<>> /\ P = <<>> /\ half_step = 0 /\ fi = 0 /\ raised = <<"none", 0>>

SimIdle ==
    /\ grid_sizes = <<>> /\ sim_length = 0 /\ burn_in = 0 /\ return_sim = FALSE
    /\ S = <<>> /\ Pi = <<>> /\ Xvec = <<>> /\ x0 = <<>> /\ ind_i = 0 /\ t = 0
    /\ sum_row = <<>> /\ ret = <<>> /\ draws = <<>> /\ writes = <<>>

InitVar == vpc = "start" /\ SimIdle /\ CartIdle /\ ARIdle

NextVar == DiscreteVarCall \/ SimStep \/ Prune \/ Normalize

SpecVar == InitVar /\ [][NextVar]_vars

(***************************************************************************)
(* cartesian_product applied to every list of at most MaxDims strictly     *)
(* increasing grids with values in 1..MaxVal whose product has at most     *)
(* MaxRows rows, in both modes.                                            *)
(***************************************************************************)
\* the elements of a set of numbers in increasing order
RECURSIVE Increasing(_)
Increasing(T) ==
    IF T = {} THEN <<>>
    ELSE LET lo == CHOOSE v \in T : \A w \in T : v <= w
         IN  <<lo>> \o Increasing(T \ {lo})

Grids == {Increasing(T) : T \in (SUBSET (1..MaxVal)) \ {{}}}

GridLists ==
    {V \in UNION {[1..d -> Grids] : d \in 1..MaxDims} :
        prod([k \in 1..Len(V) |-> Len(V[k])]) <= MaxRows}

InitCart ==
    /\ cpc = "start"
    /\ arrays \in GridLists
    /\ row_major \in BOOLEAN
    /\ CS = <<>>
    /\ vpc = "idle" /\ SimIdle /\ ARIdle

\* lines 232-249: the call
CartesianProduct ==
    /\ cpc = "start"
    /\ CS' = cartesian_product(arrays, row_major)
    /\ cpc' = "done"
    /\ UNCHANGED <<arrays, row_major, simVars, arVars>>

NextCart == CartesianProduct

SpecCart == InitCart /\ [][NextCart]_vars

\* sizes g_0 .. g_{m-1} of the argument grids
gsOf(arrs) == [k \in 1..Len(arrs) |-> Len(arrs[k])]

\* every combination of one value per grid
Combinations(arrs) ==
    {c \in [1..Len(arrs) -> 1..MaxVal] : \A k \in 1..Len(arrs) : \E j \in 1..Len(arrs[k]) : arrs[k][j] = c[k]}

\* C3: the result has g_0*...*g_{m-1} rows of m values, every combination of
\* one value per grid is exactly one row, and the other mode returns the same
\* set of rows
C3_EveryCombinationOnce ==
    cpc = "done" =>
        /\ Len(CS) = prod(gsOf(arrays))
        /\ \A r \in 1..Len(CS) : Len(CS[r]) = Len(arrays)
        /\ \A c \in Combinations(arrays) : Cardinality({r \in 1..Len(CS) : CS[r] = c}) = 1
        /\ {CS[r] : r \in 1..Len(CS)} =
               LET other == cartesian_product(arrays, ~row_major)
               IN  {other[r] : r \in 1..Len(other)}

C3_Witness ==
    /\ cpc = "done" /\ ~row_major /\ Len(arrays) = 3
    /\ Len(arrays[1]) = 2 /\ Len(arrays[2]) = 3 /\ Len(arrays[3]) = 2
    /\ CS # cartesian_product(arrays, TRUE)

\* C4: row i holds in column k the grid value of index (i div stride_k) mod g_k,
\* where stride_k is g_{k+1}*...*g_{m-1} with row_major (last dimension
\* fastest) and g_0*...*g_{k-1} without (dimension 0 fastest)
C4_MixedRadixOrder ==
    cpc = "done" =>
        LET gs == gsOf(arrays)
            mm == Len(arrays)
            stride(k) == IF row_major THEN prod(SubSeq(gs, k + 2, mm))
                         ELSE prod(SubSeq(gs, 1, k))
        IN  \A i \in 0..(Len(CS) - 1), k \in 0..(mm - 1) :
                At(At(CS, i), k) = At(At(arrays, k), (i \div stride(k)) % At(gs, k))

C4_Witness ==
    /\ cpc = "done" /\ row_major /\ Len(arrays) = 3
    /\ Len(arrays[1]) = 2 /\ Len(arrays[2]) = 3 /\ Len(arrays[3]) = 2
    /\ CS[2][3] # CS[1][3] /\ CS[2][1] = CS[1][1]


(***************************************************************************)
(* rouwenhorst (lines 17-137) and tauchen (lines 140-216).                 *)
(*                                                                         *)
(* rho is the rational rho[1]/rho[2].  Probabilities are exact: a matrix   *)
(* of rouwenhorst is the record [mat, den] of integer numerators over one  *)
(* common denominator; an entry of tauchen's P is a pair <<num, den>>.     *)
(* NaN is the pair <<0, 0>>.  The state values of rouwenhorst (bar) do not *)
(* enter the matrix and are not modelled; MarkovChain, the container that  *)
(* both constructors return, is outside this file and only stores them.    *)
(***************************************************************************)
NaN == <<0, 0>>

\* the sign of 1 - rho**2 is the sign of OneMinusRhoSq (its numerator)
OneMinusRhoSq == rho[2] * rho[2] - rho[1] * rho[1]

IsSquare(v) == \E r \in 0..v : r * r = v

ISqrt(v) == CHOOSE r \in 0..v : r * r = v

\* p = q = (1 + rho) / 2 as pNum / pDen (lines 91-92)
pNum == rho[2] + rho[1]

pDen == 2 * rho[2]

\* line 86: y_sd = sqrt(sigma**2 / (1 - rho**2)), with math.sqrt on Python
\* floats: a zero divisor and a negative radicand both raise.  std_y keeps
\* the radicand, in units of sigma**2.
RouwenhorstStd ==
    /\ apc = "start" /\ fn = "rouwenhorst"
    /\ IF OneMinusRhoSq = 0
       THEN /\ apc' = "raised" /\ raised' = <<"ZeroDivisionError", 86>>
            /\ UNCHANGED std_y
       ELSE IF OneMinusRhoSq < 0
       THEN /\ apc' = "raised" /\ raised' = <<"ValueError", 86>>
            /\ UNCHANGED std_y
       ELSE /\ apc' = "grid" /\ std_y' = <<rho[2] * rho[2], OneMinusRhoSq>>
            /\ UNCHANGED raised
    /\ UNCHANGED <<fn, n, rho, m, stack, arg, theta, x, P, half_step, fi, simVars, cartVars>>

\* lines 91-99 and the call of line 133: np.linspace refuses a negative
\* number of samples; otherwise row_build_mat(n, p, q) is entered
RouwenhorstGrid ==
    /\ apc = "grid" /\ fn = "rouwenhorst"
    /\ IF n < 0
       THEN /\ apc' = "raised" /\ raised' = <<"ValueError", 99>>
            /\ UNCHANGED <<arg, stack>>
       ELSE /\ apc' = "rbm_enter" /\ arg' = n /\ stack' = <<>>
            /\ UNCHANGED raised
    /\ UNCHANGED <<fn, n, rho, m, theta, std_y, x, P, half_step, fi, simVars, cartVars>>

\* line 109: the base matrix [[p, 1 - p], [1 - q, q]]
BaseTheta == [mat |-> << <<pNum, pDen - pNum>>, <<pDen - pNum, pNum>> >>, den |-> pDen]

\* lines 108-109: the base case
RbmBase ==
    /\ apc = "rbm_enter" /\ arg = 2
    /\ theta' = BaseTheta
    /\ apc' = "rbm_return"
    /\ UNCHANGED <<fn, n, rho, m, stack, arg, std_y, x, P, half_step, fi, raised, simVars, cartVars>>

\* a descent that skips a level
DescendByTwo(k) == k - 2

\* line 117: the argument of the nested call
Descend(k) == k - 1

\* lines 111-117: the frame waits for row_build_mat(n - 1, p, q)
RbmRecurse ==
    /\ apc = "rbm_enter" /\ arg > 2
    /\ stack' = Append(stack, arg)
    /\ arg' = Descend(arg)
    /\ UNCHANGED <<apc, fn, n, rho, m, theta, std_y, x, P, half_step, fi, raised, simVars, cartVars>>

\* lines 127-129: neither n == 2 nor n > 2; the error unwinds every frame
RbmRaise ==
    /\ apc = "rbm_enter" /\ arg < 2
    /\ apc' = "raised" /\ raised' = <<"ValueError", 128>>
    /\ UNCHANGED <<fn, n, rho, m, stack, arg, theta, std_y, x, P, half_step, fi, simVars, cartVars>>

\* interior rows left as they are
HalveNone(k, M) == M

\* line 125: theta[1:n-1, :] / 2.  Over the doubled denominator the first
\* and last row double their numerators and the interior rows keep theirs.
Halve(k, M) ==
    [mat |-> [i \in 1..k |-> [j \in 1..k |->
                 IF i = 1 \/ i = k THEN 2 * M.mat[i][j] ELSE M.mat[i][j]]],
     den |-> 2 * M.den]

\* lines 112-124: p1 + p2 + p3 + p4 for the k x k level, from the matrix new
\* of the level below (i, j are the code's 0-based indices)
FourCorners(k, new) ==
    [mat |-> [i1 \in 1..k |-> [j1 \in 1..k |->
        LET i == i1 - 1
            j == j1 - 1
        IN  (IF i < k - 1 /\ j < k - 1 THEN pNum * new.mat[i + 1][j + 1] ELSE 0)
          + (IF i < k - 1 /\ j >= 1 THEN (pDen - pNum) * new.mat[i + 1][j] ELSE 0)
          + (IF i >= 1 /\ j < k - 1 THEN (pDen - pNum) * new.mat[i][j + 1] ELSE 0)
          + (IF i >= 1 /\ j >= 1 THEN pNum * new.mat[i][j] ELSE 0)]],
     den |-> new.den * pDen]

\* lines 117-131: the nested call has returned theta; the waiting frame
\* builds its own matrix and returns it
RbmCombine ==
    /\ apc = "rbm_return" /\ stack # <<>>
    /\ LET k == stack[Len(stack)]
       IN  theta' = Halve(k, FourCorners(k, theta))
    /\ stack' = SubSeq(stack, 1, Len(stack) - 1)
    /\ UNCHANGED <<apc, fn, n, rho, m, arg, std_y, x, P, half_step, fi, raised, simVars, cartVars>>

\* lines 133-137: the outermost frame has returned; the chain is returned
RouwenhorstReturn ==
    /\ apc = "rbm_return" /\ stack = <<>>
    /\ apc' = "done"
    /\ UNCHANGED <<fn, n, rho, m, stack, arg, theta, std_y, x, P, half_step, fi, raised, simVars, cartVars>>

(***************************************************************************)
(* tauchen.  P does not depend on the unit of length, so lengths are in    *)
(* units of sigma_u / (s * (n - 1)) with s = sqrt(den**2 - num**2): then   *)
(* sigma_u, std_y, the grid and half_step are integers.                    *)
(***************************************************************************)
sigma_u == IF OneMinusRhoSq > 0 THEN ISqrt(OneMinusRhoSq) * (n - 1) ELSE 1

\* line 175: std_y = np.sqrt(sigma_u**2 / (1 - rho**2)).  The division is a
\* Python float division and raises on a zero divisor; np.sqrt of a negative
\* number is NaN with a warning, and the call goes on.
TauchenStd ==
    /\ apc = "start" /\ fn = "tauchen"
    /\ IF OneMinusRhoSq = 0
       THEN /\ apc' = "raised" /\ raised' = <<"ZeroDivisionError", 175>>
            /\ UNCHANGED std_y
       ELSE IF OneMinusRhoSq < 0
       THEN /\ apc' = "grid" /\ std_y' = NaN
            /\ UNCHANGED raised
       ELSE /\ apc' = "grid"
            /\ std_y' = ISqrt((sigma_u * sigma_u * rho[2] * rho[2]) \div OneMinusRhoSq)
            /\ UNCHANGED raised
    /\ UNCHANGED <<fn, n, rho, m, stack, arg, theta, x, P, half_step, fi, simVars, cartVars>>

\* line 187: half_step = 0.5 * step
HalfStep(step) == step \div 2

\* lines 177-188: the grid and the half step (NaN throughout when std_y is)
TauchenGrid ==
    /\ apc = "grid" /\ fn = "tauchen"
    /\ IF OneMinusRhoSq < 0
       THEN /\ x' = [k \in 1..n |-> NaN]
            /\ half_step' = NaN
       ELSE LET x_max == m * std_y
                x_min == -x_max
                step == (x_max - x_min) \div (n - 1)
            IN  /\ x' = linspace(x_min, x_max, n)
                /\ half_step' = HalfStep(step)
    /\ P' = <<>>
    /\ fi' = 0
    /\ apc' = "fill"
    /\ UNCHANGED <<fn, n, rho, m, stack, arg, theta, std_y, raised, simVars, cartVars>>

\* the standard normal CDF at -5, -4, ..., 5, in units of 1/100000
PhiTable == <<0, 3, 135, 2275, 15866, 50000, 84134, 97725, 99865, 99997, 100000>>

PhiOne == PhiTable[Len(PhiTable)]

\* lines 202-204: std_norm_cdf at the rational a/b (b > 0), as a numerator
\* over PhiOne * b.  0.5 * erfc(-z / sqrt(2)) is tabulated at the integers
\* and interpolated linearly in between; beyond -5 and 5 it is 0 and 1.
std_norm_cdf(a, b) ==
    LET k == a \div b
    IN  IF k < -5 THEN 0
        ELSE IF k >= 5 THEN PhiOne * b
        ELSE PhiTable[k + 6] * b + (PhiTable[k + 7] - PhiTable[k + 6]) * (a - k * b)

\* lines 210-216: row i of P (0-based i)
TauchenRow(i) ==
    LET rx == (rho[1] * At(x, i)) \div rho[2]              \* rho * x[i]
        den == PhiOne * sigma_u
    IN  [j1 \in 1..n |->
            LET j == j1 - 1
                z == At(x, j) - rx
            IN  IF j = 0 THEN <<std_norm_cdf(z + half_step, sigma_u), den>>
                ELSE IF j = n - 1 THEN <<den - std_norm_cdf(z - half_step, sigma_u), den>>
                ELSE <<std_norm_cdf(z + half_step, sigma_u)
                       - std_norm_cdf(z - half_step, sigma_u), den>>]

\* one iteration of the loop of line 209
TauchenFillRow ==
    /\ apc = "fill" /\ fi < n
    /\ P' = Append(P, IF OneMinusRhoSq < 0 THEN [j \in 1..n |-> NaN] ELSE TauchenRow(fi))
    /\ fi' = fi + 1
    /\ UNCHANGED <<apc, fn, n, rho, m, stack, arg, theta, std_y, x, half_step, raised, simVars, cartVars>>

\* lines 194-199: the chain is returned
TauchenReturn ==
    /\ apc = "fill" /\ fi = n
    /\ apc' = "done"
    /\ UNCHANGED <<fn, n, rho, m, stack, arg, theta, std_y, x, P, half_step, fi, raised, simVars, cartVars>>

\* the values of rho: every num/den within the bounds
Rhos == {r \in (-MaxRhoNum..MaxRhoNum) \X (1..MaxRhoDen) : TRUE}

InitAR ==
    /\ apc = "start"
    /\ fn \in {"rouwenhorst", "tauchen"}
    /\ rho \in Rhos
    /\ n \in -1..MaxN
    /\ m \in 0..MaxM
    /\ IF fn = "rouwenhorst" THEN m = 0
       ELSE /\ m >= 1 /\ n >= 2
            \* tauchen's lengths need sqrt(1 - rho**2) rational when it is real
            /\ OneMinusRhoSq > 0 => IsSquare(OneMinusRhoSq)
    /\ stack = <<>> /\ arg = 0 /\ theta = <<>> /\ std_y = 0
    /\ x = <<>> /\ P = <<>> /\ half_step = 0 /\ fi = 0 /\ raised = <<"none", 0>>
    /\ vpc = "idle" /\ SimIdle /\ CartIdle

NextAR ==
    \/ RouwenhorstStd \/ RouwenhorstGrid \/ RbmBase \/ RbmRecurse \/ RbmRaise
    \/ RbmCombine \/ RouwenhorstReturn
    \/ TauchenStd \/ TauchenGrid \/ TauchenFillRow \/ TauchenReturn

SpecAR == InitAR /\ [][NextAR]_vars

(***************************************************************************)
(* Properties of discrete_var and _run_sim.                                *)
(***************************************************************************)
\* index of the state nearest to the x drawn at step tt (0-based)
IdxAt(tt) == argmin(Dist(S, draws[tt + 1]))

\* the steps counted so far: the tt < t inside the count window
CountedSteps == {tt \in 0..(t - 1) : tt > burn_in}

\* sum of all entries of a matrix of numbers
Total(M) == Sum([i \in 1..Len(M) |-> Sum(M[i])])

\* a normalized row sums to 1: one nonzero denominator, numerators adding up to it
RowSumsToOne(row) ==
    /\ \A j \in 1..Len(row) : row[j][2] # 0 /\ row[j][2] = row[1][2]
    /\ Sum([j \in 1..Len(row) |-> row[j][1]]) = row[1][2]

\* C1: every row of the transition matrix discrete_var returns sums to 1
C1_ReturnedRowsSumToOne ==
    (vpc = "done" /\ sim_length >= 2) =>
        \A i \in 1..Len(ret[1]) : RowSumsToOne(ret[1][i])

\* C2: discrete_var never returns when a surviving state has a zero row sum
\* (it reports an error instead of dividing that row by zero)
C2_ZeroRowNeverReturned ==
    vpc = "done" => \A i \in 1..Len(sum_row) : sum_row[i] # 0

\* C8: with return_sim, every column k of the returned Xvec was written exactly
\* once and holds the x of the k-th step after burn-in
C8_TraceComplete ==
    (vpc = "done" /\ return_sim) =>
        /\ Len(ret[3]) = sim_length
        /\ \A k \in 0..(sim_length - 1) :
            /\ At(writes, k) = 1
            /\ At(ret[3], k) = draws[burn_in + k + 1]

\* C9: while the loop runs, the counts are exactly the transitions of the steps
\* t > burn_in: cell [i, j] holds the number of counted steps tt whose previous
\* step quantized to i and whose own step quantized to j; nothing is counted at
\* a step t <= burn_in, and for sim_length >= 1 the counts total sim_length - 1
\* when the loop ends
C9_CountWindow ==
    vpc = "sim" =>
        /\ ind_i = argmin(Dist(S, x0))
        /\ \A a \in 0..(Len(Pi) - 1), b \in 0..(Len(Pi) - 1) :
            Pi[a + 1][b + 1] =
                Cardinality({tt \in CountedSteps : IdxAt(tt - 1) = a /\ IdxAt(tt) = b})
        /\ (t <= burn_in + 1 => Total(Pi) = 0)
        /\ (t = sim_length + burn_in /\ sim_length >= 1 => Total(Pi) = sim_length - 1)

C9_Witness ==
    /\ vpc = "sim" /\ t = sim_length + burn_in
    /\ burn_in >= 1 /\ sim_length >= 3
    /\ \E a \in 1..Len(Pi) : Pi[a][a] = 1 /\ Total(Pi) = 2

\* 1 if the condition holds, else 0
Ind(c) == IF c THEN 1 ELSE 0

\* C10: flow conservation of the raw counts: for every state s, row sum minus
\* column sum is [s is the source of the first counted transition] minus
\* [s is the destination of the latest one]; so when the loop has ended at most
\* one state with a positive column sum has a zero row sum, and it is the last
\* state visited
C10_FlowConservation ==
    vpc = "sim" =>
        /\ \A s \in 0..(Len(Pi) - 1) :
            RowSum(Pi, s) - ColSum(Pi, s) =
                IF CountedSteps = {} THEN 0
                ELSE Ind(s = IdxAt(burn_in)) - Ind(s = ind_i)
        /\ t = sim_length + burn_in =>
            LET dead == {s \in 0..(Len(Pi) - 1) : ColSum(Pi, s) > 0 /\ RowSum(Pi, s) = 0}
            IN  Cardinality(dead) <= 1 /\ dead \subseteq {ind_i}

C10_Witness ==
    /\ vpc = "sim" /\ t = sim_length + burn_in
    /\ Total(Pi) >= 2
    /\ ColSum(Pi, ind_i) > 0 /\ RowSum(Pi, ind_i) = 0


(***************************************************************************)
(* Properties of rouwenhorst and tauchen.                                  *)
(***************************************************************************)
ValidRho == OneMinusRhoSq > 0

\* a matrix of numerators over den whose entries are in [0, 1] and whose rows sum to 1
Stochastic(M) ==
    /\ M.den > 0
    /\ \A i \in 1..Len(M.mat) :
        /\ \A j \in 1..Len(M.mat[i]) : 0 <= M.mat[i][j] /\ M.mat[i][j] <= M.den
        /\ Sum(M.mat[i]) = M.den

\* a row of pairs <<num, den>> with entries in [0, 1] that sums to 1
StochasticRow(row) ==
    /\ \A j \in 1..Len(row) :
        row[j][2] > 0 /\ row[j][2] = row[1][2] /\ 0 <= row[j][1] /\ row[j][1] <= row[j][2]
    /\ Sum([j \in 1..Len(row) |-> row[j][1]]) = row[1][2]

\* C5: for valid inputs, every matrix row_build_mat returns (at every level
\* of the recursion, hence the one rouwenhorst returns) and every row
\* _fill_tauchen has filled has its entries in [0, 1] and sums to 1
C5_RowsStochastic ==
    /\ (fn = "rouwenhorst" /\ ValidRho /\ n >= 2 /\ apc \in {"rbm_return", "done"})
            => Stochastic(theta)
    /\ (fn = "tauchen" /\ ValidRho /\ apc \in {"fill", "done"})
            => /\ \A i \in 1..Len(P) : Len(P[i]) = n /\ StochasticRow(P[i])
               /\ (apc = "done" => Len(P) = n)

C5_Witness ==
    /\ fn = "tauchen" /\ apc = "done" /\ n = 4 /\ rho = <<3, 5>> /\ m = 2
    /\ \A i \in 1..n, j \in 1..n : 0 < P[i][j][1] /\ P[i][j][1] < P[i][j][2]

\* C6: for |rho| >= 1 both constructors end in an error raised where the
\* stationary standard deviation is computed (line 86, line 175)
C6_RaisedAtStd ==
    (fn \in {"rouwenhorst", "tauchen"} /\ ~ValidRho /\ apc # "start") =>
        (apc = "raised" /\ raised[2] \in {86, 175})

\* C7: for |rho| < 1, rouwenhorst with n < 2 never gets a matrix (it goes on
\* until an error is raised: np.linspace refuses n < 0, and the frame of
\* row_build_mat(n) can only take the error branch); with n >= 2 no error is
\* raised, the frames entered are n, n-1, ..., 2, so the base case is reached
\* with n - 2 frames waiting, and the matrix returned is n x n
C7_RecursionDepth ==
    (fn = "rouwenhorst" /\ ValidRho) =>
        /\ n < 2 => /\ apc \in {"start", "grid", "rbm_enter", "raised"}
                    /\ apc = "rbm_enter" => arg = n /\ stack = <<>>
                    /\ apc # "raised" => ENABLED NextAR
        /\ n >= 2 =>
            /\ apc # "raised"
            /\ apc = "rbm_enter" =>
                /\ 2 <= arg /\ arg <= n
                /\ stack = [k \in 1..(n - arg) |-> n - k + 1]
            /\ apc = "rbm_return" =>
                /\ Len(theta.mat) = n - Len(stack)
                /\ stack = [k \in 1..Len(stack) |-> n - k + 1]
            /\ apc = "done" =>
                /\ Len(theta.mat) = n
                /\ \A i \in 1..n : Len(theta.mat[i]) = n

C7_Witness ==
    /\ fn = "rouwenhorst" /\ ValidRho /\ n = 4
    /\ apc = "rbm_return" /\ Len(stack) = n - 2 /\ Len(theta.mat) = 2

====
